---- MODULE Spec2Model ----
(***************************************************************************)
(* Client-side session and OAuth handshake of CodeCritic.                  *)
(*                                                                         *)
(*   Credential Store    lib/auth   (setAuthToken/getAuthToken/remove...)  *)
(*   API Gateway Client  lib/api    (axios instance + request interceptor) *)
(*   Session Manager     AuthProvider (initAuth, login, logout)            *)
(*   Handshake Controller AuthCallback (useEffect / handleCallback)        *)
(*                                                                         *)
(* The browser runs one cooperative event loop: every action below is one  *)
(* run-to-completion task: a click handler up to its first await, the      *)
(* continuation of an await once its response has arrived, a render that   *)
(* React commits, the passive effects of a commit, or the replacement of   *)
(* the view by the router. State updates and router.push only schedule the *)
(* last three.                                                             *)
(***************************************************************************)
EXTENDS Integers, Sequences, FiniteSets, TLC

VARIABLES
    token,      \* localStorage[AUTH_TOKEN_KEY]; Null when the key is absent
    user,       \* AuthProvider state `user`
    loading,    \* AuthProvider state `loading`
    initPc,     \* position of initAuth: "boot", "awaitMe" or "done"
    initToken,  \* the local `token` read by initAuth
    route,      \* the view that is mounted under the AuthProvider
    url,        \* the URL the page was loaded with: path and query parameters
    cbError,    \* AuthCallback state `error`
    sent,       \* every request handed to axios, in order of issue
    reply,      \* per request of `sent`: "none" while outstanding, else "ok"/"fail"
    logouts,    \* number of activations of the Logout control (logout())
    variant,    \* which of the three versions of dashboard/page.tsx is deployed
    gen,        \* number of view mounts so far: names the mounted view instance
    href,       \* what the login view assigned to window.location.href, else Null
    loginLoading, \* LoginPage state `loading`
    dash,       \* DashboardPage state (repositories, stats, syncing, ...)
    results,    \* AnalysisResultsPage state and its `id` query parameter
    lastAlert,  \* the most recent window.alert
    shown,      \* the state as React last rendered it: what is on the screen
    fresh,      \* setUser was given a new user object since the last render
    nav,        \* the route that router.push asked for and is not shown yet
    effects,    \* the passive effects of the last commit that have not run
    clicks,     \* activations of the other controls still to come
    logins,     \* exchanges the backend will still answer with a token
    storeOps    \* the calls made to the Credential Store on its own, in order

\* what only the runs of the store on its own use
aside == <<storeOps>>

vars == <<token, user, loading, initPc, initToken, route, url, cbError,
          sent, reply, logouts, variant, gen, href, loginLoading, dash,
          results, lastAlert, shown, fresh, nav, effects, clicks, logins,
          aside>>

----------------------------------------------------------------------------
(* Values *)

\* JavaScript null / undefined / a missing key
Null == "null"
Undefined == "undefined"

\* Bound on Logout clicks (the code has none)
MaxLogouts == 1

\* Bound on the exchanges that the backend answers with a token (the code
\* has none)
MaxLogins == 2

\* Bound on the activations of the other controls (the code has none)
MaxClicks == 2

\* The same two bounds for the runs of the whole client: one exchange is
\* answered with a token, and a run that starts on the callback page leaves
\* the controls alone (the runs from the other pages press them)
MaxAppLogins == 1
MaxCallbackClicks == 0

\* Bound on the activations of the controls of the analysis workflow
MaxAnalyses == 4

Tokens == {"t1", "t2"}
Users == {"u1", "u2"}

\* the identity the backend associates with a bearer token
UserOf(t) == IF t = "t1" THEN "u1" ELSE "u2"

\* what URLSearchParams.get can return for the three callback parameters
CodeVals == {Null, "", "abc123"}
StateVals == {Null, "", "xyz"}
ErrorVals == {Null, "", "access_denied"}

\* error.response?.data?.detail of a failed request
Details == {Null, "", "bad_verification_code"}

\* the same of a failed request of the workflow
ErrorDetails == {Null, "", "rate limited"}

Routes == {"home", "login", "callback", "dashboard"}

\* the versions of dashboard/page.tsx: with alerts only (1), with the results
\* view (2), and with the session alone (3)
AlertsOnly == 1
WithResults == 2
SessionOnly == 3

\* repository ids, and the lists the backend answers with
RepoIds == {1, 2}
RepoLists == {<<>>, <<1, 2>>}

\* analysis ids the backend hands out, and the status of a started analysis
AnalysisIds == {7}
Statuses == {"pending", "running", "completed", "failed"}

\* what searchParams.get('id') can return on the results view
IdVals == {Null, "7"}

\* useState<RepoStats | null>(null) and useState<Analysis | null>(null): 0 is
\* null, and j > 0 is the object that the response to request j carried
NoStats == 0
NoAnalysis == 0

\* the authorization URL that initiateOAuth returns
AuthUrls == {"https://github.com/login/oauth/authorize"}

\* `${analysis_id}` in the route that is pushed
idString(n) == IF n = 7 THEN "7" ELSE "?"

\* parseInt(analysisId!); NaN is -1
NaN == -1
parseInt(str) == IF str = "7" THEN 7 ELSE NaN

\* JavaScript truthiness of a string-or-null value
Truthy(v) == v \notin {Null, Undefined, ""}

----------------------------------------------------------------------------
(* Credential Store *)

setAuthToken(s, t) == [s EXCEPT !.token = t]

getAuthToken(s) == s.token

removeAuthToken_Noop(s) == s

removeAuthToken(s) == [s EXCEPT !.token = Null]

----------------------------------------------------------------------------
(* API Gateway Client *)

Bearer_AtStartup(s) == s.initToken

\* the request interceptor: the Authorization header of a request issued in s
Bearer(s) == IF Truthy(getAuthToken(s)) THEN getAuthToken(s) ELSE Null

requestFrom_Twice(s, g, op, a1, a2) ==
    [s EXCEPT !.sent = Append(Append(@, [op |-> op, a1 |-> a1, a2 |-> a2,
                                         bearer |-> Bearer(s), gen |-> g]),
                              [op |-> op, a1 |-> a1, a2 |-> a2,
                               bearer |-> Bearer(s), gen |-> g]),
              !.reply = Append(Append(@, "none"), "none")]

\* api.get / api.post called by an invocation that belongs to view instance
\* g: one request leaves, its response is awaited
requestFrom(s, g, op, a1, a2) ==
    [s EXCEPT !.sent = Append(@, [op |-> op, a1 |-> a1, a2 |-> a2,
                                  bearer |-> Bearer(s), gen |-> g]),
              !.reply = Append(@, "none")]

\* the same, called by the view instance that is mounted
request(s, op, a1, a2) == requestFrom(s, s.gen, op, a1, a2)

githubCallback(s, code, state) == request(s, "exchange", code, state)

getCurrentUser(s) == request(s, "me", Null, Null)

apiLogout(s) == request(s, "logout", Null, Null)

----------------------------------------------------------------------------
(* The state the handlers act on, as one record *)

St == [token |-> token, user |-> user, loading |-> loading, route |-> route,
       cbError |-> cbError, sent |-> sent, reply |-> reply,
       gen |-> gen, href |-> href, loginLoading |-> loginLoading,
       dash |-> dash, results |-> results, lastAlert |-> lastAlert,
       shown |-> shown, fresh |-> fresh, nav |-> nav, effects |-> effects,
       initPc |-> initPc, initToken |-> initToken]

Apply(s) ==
    /\ token' = s.token
    /\ user' = s.user
    /\ loading' = s.loading
    /\ route' = s.route
    /\ cbError' = s.cbError
    /\ sent' = s.sent
    /\ reply' = s.reply
    /\ gen' = s.gen
    /\ href' = s.href
    /\ loginLoading' = s.loginLoading
    /\ dash' = s.dash
    /\ results' = s.results
    /\ lastAlert' = s.lastAlert
    /\ shown' = s.shown
    /\ fresh' = s.fresh
    /\ nav' = s.nav
    /\ effects' = s.effects
    /\ initPc' = s.initPc
    /\ initToken' = s.initToken

\* a response has arrived: its request is no longer outstanding
Settle(s, i, r) == [s EXCEPT !.reply[i] = r]

\* the requests of operation op whose response has not arrived
Outstanding(op) ==
    {i \in DOMAIN sent : sent[i].op = op /\ reply[i] = "none"}

----------------------------------------------------------------------------
(* Views: navigation and effects *)

\* the state a DashboardPage instance starts with
DashInit ==
    [repositories |-> <<>>, stats |-> NoStats, syncing |-> FALSE,
     loading |-> TRUE, analyzingRepos |-> {}]

\* the state an AnalysisResultsPage instance starts with, for ?id=<id>
ResultsInit(id) ==
    [analysisId |-> id, analysis |-> NoAnalysis, issues |-> <<>>,
     loading |-> TRUE, error |-> Null, selectedSeverity |-> "all"]

\* no navigation is pending
NoNav == [route |-> Null, id |-> Null]

\* The passive effects (useEffect) that a commit has scheduled and that have
\* not run yet: `first` is the first effect the view declares (handleCallback
\* of AuthCallback, the redirect effect of the other views), `load` the load
\* effect of the dashboard and of the results view
NoEffects == [first |-> FALSE, load |-> FALSE]
AllEffects == [first |-> TRUE, load |-> TRUE]

\* what a render puts on the screen: the context of the AuthProvider and the
\* state of the views
Snapshot(s) ==
    [user |-> s.user, loading |-> s.loading, cbError |-> s.cbError,
     loginLoading |-> s.loginLoading, dash |-> s.dash, results |-> s.results]

\* a state update is waiting for its render
Dirty(s) == s.fresh \/ s.shown # Snapshot(s)

\* React commits a render of state s
Commit(s) == [s EXCEPT !.shown = Snapshot(s), !.fresh = FALSE]

\* The view of route r replaces the mounted one: a new instance with fresh
\* state. The state of a view that is gone cannot be seen, and is reset.
mountView(s, r, id) ==
    [s EXCEPT !.route = r, !.gen = @ + 1, !.loginLoading = FALSE,
              !.dash = DashInit, !.results = ResultsInit(id), !.nav = NoNav]

\* router.push: the navigation is scheduled, the mounted view stays until the
\* router replaces it; a later push takes the place of a pending one
push(s, r) == [s EXCEPT !.nav = [route |-> r, id |-> Null]]

\* router.push(`/analysis/results?id=${id}`)
pushResults(s, id) == [s EXCEPT !.nav = [route |-> "results", id |-> id]]

\* whether the view instance that issued request i is still the mounted one:
\* React drops a state update of an unmounted component
Mounted(s, i) == s.sent[i].gen = s.gen

\* window.alert
alert(s, kind, text) == [s EXCEPT !.lastAlert = [kind |-> kind, text |-> text]]

\* the redirect effect of the dashboard without its test of loading
DashboardRedirect_Eager(s) ==
    IF s.shown.user = Null THEN push(s, "login") ELSE s

\* An effect reads `user` and `loading` as the render it belongs to was
\* given them (s.shown), whatever the state is when it runs.
\* the redirect effect of the dashboard: if (!loading && !isAuthenticated)
DashboardRedirect(s) ==
    IF ~s.shown.loading /\ s.shown.user = Null THEN push(s, "login") ELSE s

\* the redirect effect of the results view: if (!authLoading && !user)
ResultsRedirect(s) ==
    IF ~s.shown.loading /\ s.shown.user = Null THEN push(s, "login") ELSE s

\* DashboardPage.loadStats up to its await; caller is 0 when the effect calls
\* it and else the sync request whose handler awaits it
loadStats(s, g, caller) == requestFrom(s, g, "stats", caller, Null)

\* DashboardPage.loadRepositories up to its await
loadRepositories(s) ==
    request([s EXCEPT !.dash.loading = TRUE], "list", Null, Null)

DashboardLoadEffect_Ungated(s) ==
    IF variant # SessionOnly
    THEN loadStats(loadRepositories(s), s.gen, 0)
    ELSE s

\* the load effect of the dashboard (versions 1 and 2):
\* if (user) { loadRepositories(); loadStats(); }
DashboardLoadEffect(s) ==
    IF s.shown.user # Null /\ variant # SessionOnly
    THEN loadStats(loadRepositories(s), s.gen, 0)
    ELSE s

\* AnalysisResultsPage.loadAnalysis up to its await
loadAnalysis(s) ==
    request([s EXCEPT !.results.loading = TRUE], "analysis",
            parseInt(s.results.analysisId), Null)

\* the load effect of the results view: if (analysisId && user) loadAnalysis()
ResultsLoadEffect(s) ==
    IF Truthy(s.results.analysisId) /\ s.shown.user # Null
    THEN loadAnalysis(s) ELSE s

\* the redirect effect of the home view: if (!loading && isAuthenticated)
HomeRedirect(s) ==
    IF ~s.shown.loading /\ s.shown.user # Null THEN push(s, "dashboard")
    ELSE s

\* setError of AuthCallback: a state update of an unmounted view is dropped
setError(s, msg) ==
    IF s.route = "callback" THEN [s EXCEPT !.cbError = msg] ELSE s

\* handleCallback without its test of `code`
handleCallback_NoCodeTest(s) ==
    IF Truthy(url.error)
    THEN setError(s, "GitHub authentication was denied")
    ELSE githubCallback(s, url.code,
                        IF Truthy(url.state) THEN url.state ELSE Undefined)

\* AuthCallback.handleCallback up to its await
handleCallback(s) ==
    LET code == url.code
        state == url.state
        errorParam == url.error
    IN  IF Truthy(errorParam)
        THEN setError(s, "GitHub authentication was denied")
        ELSE IF ~Truthy(code)
        THEN setError(s, "No authorization code received")
        ELSE githubCallback(s, code, IF Truthy(state) THEN state ELSE Undefined)

\* The first effect of the mounted view: handleCallback of AuthCallback, the
\* redirect effect of the other views
RunEffects(s) ==
    CASE s.route = "callback" -> handleCallback(s)
      [] s.route = "dashboard" -> DashboardRedirect(s)
      [] s.route = "results" -> ResultsRedirect(s)
      [] s.route = "home" -> HomeRedirect(s)
      [] OTHER -> s

\* The load effect of the mounted view, which depends on `user`
UserEffects(s) ==
    CASE s.route = "dashboard" -> DashboardLoadEffect(s)
      [] s.route = "results" -> ResultsLoadEffect(s)
      [] OTHER -> s

\* The AuthProvider has rendered since the last commit: it builds a new
\* context value, and a new `login` function, on every render
ProviderRendered(s) ==
    s.fresh \/ s.shown.user # s.user \/ s.shown.loading # s.loading

\* `user` is another object than at the last commit
UserChanged(s) == s.fresh \/ s.shown.user # s.user

\* `loading` or `isAuthenticated` is another value than at the last commit
AuthChanged(s) ==
    s.shown.loading # s.loading \/ (s.shown.user = Null) # (s.user = Null)

\* whether a dependency of the first effect of the mounted view has changed:
\* [searchParams, login, router] of AuthCallback, [user, authLoading, router]
\* of the dashboard (versions 1 and 2) and of the results view,
\* [loading, isAuthenticated, router] of the home view and of the dashboard
\* of version 3
FirstEffectDue(s) ==
    IF s.route = "home" \/ (s.route = "dashboard" /\ variant = SessionOnly)
    THEN AuthChanged(s)
    ELSE ProviderRendered(s)

\* React renders state s and commits it; the effects whose dependencies
\* have changed are scheduled, they run in a later task
render(s) ==
    [Commit(s) EXCEPT !.effects = [first |-> FirstEffectDue(s),
                                   load |-> UserChanged(s)]]

\* The router replaces the mounted view by the one that was pushed: the new
\* view is rendered and committed, and all its effects are scheduled. A push
\* of the route that is shown mounts nothing; on the results view a new id
\* schedules the load effect again.
navigate(s) ==
    IF s.nav.route # s.route
    THEN [Commit(mountView(s, s.nav.route, s.nav.id))
            EXCEPT !.effects = AllEffects]
    ELSE IF s.route = "results" /\ s.nav.id # s.results.analysisId
    THEN [Commit([s EXCEPT !.results.analysisId = s.nav.id, !.nav = NoNav])
            EXCEPT !.effects = [first |-> FALSE, load |-> TRUE]]
    ELSE [s EXCEPT !.nav = NoNav]

----------------------------------------------------------------------------
(* Session Manager: AuthProvider *)

\* login that sets the user but does not store the token
login_NoStore(s, tokenData) ==
    [s EXCEPT !.user = tokenData.user, !.fresh = TRUE]

\* login(tokenData)
login(s, tokenData) ==
    [setAuthToken(s, tokenData.access_token) EXCEPT !.user = tokenData.user,
                                                    !.fresh = TRUE]

\* initAuth after getCurrentUser has resolved with userData
initAuthThen(s, userData) ==
    [s EXCEPT !.user = userData, !.fresh = TRUE, !.loading = FALSE,
              !.initPc = "done"]

\* a catch branch that would return before setLoading(false)
initAuthCatch_StillLoading(s) == [removeAuthToken(s) EXCEPT !.initPc = "done"]

\* initAuth after getCurrentUser has rejected
initAuthCatch(s) ==
    [removeAuthToken(s) EXCEPT !.loading = FALSE, !.initPc = "done"]

\* initAuth when no token is stored
initAuthNoToken(s) == [s EXCEPT !.loading = FALSE, !.initPc = "done"]

\* a logout whose local part would be skipped when the backend call fails
logoutThen_OnlyOnSuccess(s, ok) ==
    IF ok THEN [removeAuthToken(s) EXCEPT !.user = Null, !.fresh = FALSE]
    ELSE s

\* logout after apiLogout has settled; ok tells whether it resolved
logoutThen(s, ok) ==
    [removeAuthToken(s) EXCEPT !.user = Null, !.fresh = FALSE]

\* initAuth without its test of the stored token
initAuth_AlwaysFetch(s) ==
    [getCurrentUser(s) EXCEPT !.initPc = "awaitMe",
                              !.initToken = getAuthToken(s)]

\* initAuth from its start to its first await, or to its end when no token
\* is stored
initAuth(s) ==
    LET t == getAuthToken(s)
    IN  IF Truthy(t)
        THEN [getCurrentUser(s) EXCEPT !.initPc = "awaitMe", !.initToken = t]
        ELSE [initAuthNoToken(s) EXCEPT !.initToken = t]

\* The passive effects that are scheduled run, children first and in the
\* order the view declares them; those of the first commit end with the
\* effect of the AuthProvider, which starts initAuth.
passiveEffects(s) ==
    LET s1 == IF s.effects.first THEN RunEffects(s) ELSE s
        s2 == IF s.effects.load THEN UserEffects(s1) ELSE s1
        s3 == IF s.initPc = "boot" THEN initAuth(s2) ELSE s2
    IN  [s3 EXCEPT !.effects = NoEffects]

\* A click is a discrete event: when its handler has updated state, React
\* runs the passive effects that are still scheduled and then renders that
\* update, before the event is over. Updates that were waiting for their
\* render stay waiting.
flushSync(s) == passiveEffects(s)

----------------------------------------------------------------------------
(* Handshake Controller: the continuations of handleCallback *)

\* a message that would ignore the detail of the backend
callbackErrorText_Generic(detail) == "Authentication failed"

\* error.response?.data?.detail || 'Authentication failed'
callbackErrorText(detail) ==
    IF Truthy(detail) THEN detail ELSE "Authentication failed"

\* githubCallback resolved with tokenData: login(tokenData), then
\* router.push('/dashboard')
handleCallbackThen(s, tokenData) == push(login(s, tokenData), "dashboard")

handleCallbackCatch_Purges(s, detail) ==
    removeAuthToken(setError(s, callbackErrorText(detail)))

\* githubCallback rejected with the given detail
handleCallbackCatch(s, detail) == setError(s, callbackErrorText(detail))

----------------------------------------------------------------------------
(* Handshake Controller: LoginPage *)

\* handleGitHubLogin up to its await
handleGitHubLogin(s) ==
    request([s EXCEPT !.loginLoading = TRUE], "oauth", Null, Null)

\* githubLogin resolved: window.location.href = auth_url leaves the app,
\* whatever view is mounted by then
handleGitHubLoginThen(s, i, auth_url) == [s EXCEPT !.href = auth_url]

handleGitHubLoginCatch_KeepsLoading(s, i) == s

\* githubLogin rejected: console.error and setLoading(false)
handleGitHubLoginCatch(s, i) ==
    IF Mounted(s, i) THEN [s EXCEPT !.loginLoading = FALSE] ELSE s

----------------------------------------------------------------------------
(* Workflow Orchestrator: DashboardPage (versions 1 and 2) *)

\* error.response?.data?.detail || fallback
detailOr(detail, fallback) == IF Truthy(detail) THEN detail ELSE fallback

\* loadRepositories after listRepositories has resolved with repos
loadRepositoriesThen(s, i, repos) ==
    IF Mounted(s, i)
    THEN [s EXCEPT !.dash.repositories = repos, !.dash.loading = FALSE]
    ELSE s

\* loadRepositories after listRepositories has rejected: console.error
loadRepositoriesCatch(s, i) ==
    IF Mounted(s, i) THEN [s EXCEPT !.dash.loading = FALSE] ELSE s

\* handleSyncRepositories after the loadStats it awaits has returned:
\* alert of success, then finally setSyncing(false)
handleSyncDone(s, i) ==
    LET s1 == alert(s, "sync_ok", "Successfully synced")
    IN  IF Mounted(s1, i) THEN [s1 EXCEPT !.dash.syncing = FALSE] ELSE s1

\* loadStats after getRepositoryStats has resolved; the stats object is named
\* by its request
loadStatsThen(s, i) ==
    LET s1 == IF Mounted(s, i) THEN [s EXCEPT !.dash.stats = i] ELSE s
    IN  IF s.sent[i].a1 # 0 THEN handleSyncDone(s1, i) ELSE s1

\* loadStats after getRepositoryStats has rejected: console.error, and the
\* caller goes on
loadStatsCatch(s, i) ==
    IF s.sent[i].a1 # 0 THEN handleSyncDone(s, i) ELSE s

\* handleSyncRepositories up to its first await
handleSyncRepositories(s) ==
    request([s EXCEPT !.dash.syncing = TRUE], "sync", Null, Null)

\* handleSyncRepositories after syncRepositories has resolved:
\* setRepositories(result.repositories); await loadStats()
handleSyncThen(s, i, repos) ==
    LET s1 == IF Mounted(s, i) THEN [s EXCEPT !.dash.repositories = repos]
              ELSE s
    IN  loadStats(s1, s.sent[i].gen, i)

handleSyncCatch_Generic(s, i, detail) ==
    LET s1 == alert(s, "sync_error", "Failed to sync repositories")
    IN  IF Mounted(s1, i) THEN [s1 EXCEPT !.dash.syncing = FALSE] ELSE s1

\* handleSyncRepositories after syncRepositories has rejected
handleSyncCatch(s, i, detail) ==
    LET s1 == alert(s, "sync_error",
                    detailOr(detail, "Failed to sync repositories"))
    IN  IF Mounted(s1, i) THEN [s1 EXCEPT !.dash.syncing = FALSE] ELSE s1

handleAnalyzeRepository_NoMark(s, repoId) ==
    request(s, "analyze", repoId, Null)

\* handleAnalyzeRepository up to its await
handleAnalyzeRepository(s, repoId) ==
    request([s EXCEPT !.dash.analyzingRepos = @ \cup {repoId}],
            "analyze", repoId, Null)

\* a finally block that would leave analyzingRepos as it is
handleAnalyzeFinally_Keep(s, i) == s

\* the finally block of handleAnalyzeRepository
handleAnalyzeFinally(s, i) ==
    IF Mounted(s, i)
    THEN [s EXCEPT !.dash.analyzingRepos = @ \ {s.sent[i].a1}]
    ELSE s

routeByStatus_CompletedOnly(s, result) ==
    IF result.status = "completed"
    THEN pushResults(s, idString(result.analysis_id))
    ELSE s

\* what handleAnalyzeRepository does with the result of startAnalysis in
\* version 2 of the dashboard
routeByStatus(s, result) ==
    IF result.status = "completed"
    THEN pushResults(s, idString(result.analysis_id))
    ELSE IF result.status = "failed"
    THEN alert(s, "analysis_failed", "Analysis failed")
    ELSE pushResults(s, idString(result.analysis_id))

\* the same in version 1: a notification for every status
alertByStatus(s, result) ==
    IF result.status = "completed"
    THEN alert(s, "analysis_completed", idString(result.analysis_id))
    ELSE IF result.status = "failed"
    THEN alert(s, "analysis_failed", "Analysis failed")
    ELSE alert(s, "analysis_in_progress", "Analysis in progress")

\* handleAnalyzeRepository after startAnalysis has resolved with result
handleAnalyzeThen(s, i, result) ==
    handleAnalyzeFinally(IF variant = AlertsOnly THEN alertByStatus(s, result)
                         ELSE routeByStatus(s, result), i)

\* the catch block of handleAnalyzeRepository without its finally block
handleAnalyzeCatch_NoFinally(s, i, detail) ==
    alert(s, "analysis_error", detailOr(detail, "Failed to start analysis"))

\* handleAnalyzeRepository after startAnalysis has rejected
handleAnalyzeCatch(s, i, detail) ==
    handleAnalyzeFinally(
        alert(s, "analysis_error", detailOr(detail, "Failed to start analysis")),
        i)

----------------------------------------------------------------------------
(* Workflow Orchestrator: AnalysisResultsPage *)

\* loadAnalysis after getAnalysis has resolved
loadAnalysisThen(s, i, data) ==
    IF Mounted(s, i)
    THEN [s EXCEPT !.results.analysis = i, !.results.issues = data.issues,
                   !.results.loading = FALSE]
    ELSE s

\* loadAnalysis after getAnalysis has rejected
loadAnalysisCatch(s, i, detail) ==
    IF Mounted(s, i)
    THEN [s EXCEPT !.results.error =
                       detailOr(detail, "Failed to load analysis results"),
                   !.results.loading = FALSE]
    ELSE s

----------------------------------------------------------------------------
(* Initial states and actions *)

Urls ==
    [path : {"callback"}, code : CodeVals, state : StateVals, error : ErrorVals,
     id : {Null}]
    \cup [path : Routes \ {"callback"}, code : {Null}, state : {Null},
          error : {Null}, id : {Null}]

\* what is the same after every full page load
Loaded ==
    /\ user = Null
    /\ loading = TRUE
    /\ initPc = "boot"
    /\ initToken = Null
    /\ route = url.path
    /\ cbError = Null
    /\ sent = <<>>
    /\ reply = <<>>
    /\ logouts = 0
    /\ gen = 0
    /\ href = Null
    /\ loginLoading = FALSE
    /\ dash = DashInit
    /\ results = ResultsInit(url.id)
    /\ lastAlert = [kind |-> "none", text |-> Null]
    /\ shown = [user |-> Null, loading |-> TRUE, cbError |-> Null,
                loginLoading |-> FALSE, dash |-> DashInit,
                results |-> ResultsInit(url.id)]
    /\ fresh = FALSE
    /\ nav = NoNav
    /\ effects = AllEffects

\* the store is not run on its own
Idle == storeOps = <<>>

\* A full page load of one of the routes: localStorage holds whatever an
\* earlier page left in it, everything else starts afresh.
Init ==
    /\ token \in Tokens \cup {Null}
    /\ url \in Urls
    /\ variant = SessionOnly
    /\ clicks = 0
    /\ logins = MaxLogins
    /\ Loaded
    /\ Idle

\* The passive effects of the first commit run: those of the view, then
\* the effect of the AuthProvider, which starts initAuth.
Mount ==
    /\ initPc = "boot"
    /\ Apply(passiveEffects(St))
    /\ UNCHANGED <<url, logouts, variant, clicks, logins, aside>>

\* The passive effects of a later commit run
Effects ==
    /\ initPc # "boot"
    /\ effects # NoEffects
    /\ Apply(passiveEffects(St))
    /\ UNCHANGED <<url, logouts, variant, clicks, logins, aside>>

\* GET /api/v1/auth/me resolves: the backend names the user of the bearer
MeOk(i) ==
    /\ i \in Outstanding("me")
    /\ Apply(initAuthThen(Settle(St, i, "ok"), UserOf(sent[i].bearer)))
    /\ UNCHANGED <<url, logouts, variant, clicks, logins, aside>>

\* GET /api/v1/auth/me rejects
MeFail(i) ==
    /\ i \in Outstanding("me")
    /\ Apply(initAuthCatch(Settle(St, i, "fail")))
    /\ UNCHANGED <<url, logouts, variant, clicks, logins, aside>>

\* POST /api/v1/auth/github/callback resolves with a new token and its user
ExchangeOk(i, t) ==
    /\ i \in Outstanding("exchange")
    /\ logins > 0
    /\ logins' = logins - 1
    /\ Apply(handleCallbackThen(Settle(St, i, "ok"),
                                [access_token |-> t, user |-> UserOf(t)]))
    /\ UNCHANGED <<url, logouts, variant, clicks, aside>>

\* POST /api/v1/auth/github/callback rejects
ExchangeFail(i, detail) ==
    /\ i \in Outstanding("exchange")
    /\ Apply(handleCallbackCatch(Settle(St, i, "fail"), detail))
    /\ UNCHANGED <<url, logouts, variant, clicks, logins, aside>>

\* The Logout control of the dashboard, rendered once loading is over and a
\* user is held: logout() up to its await
Logout ==
    /\ variant = SessionOnly
    /\ route = "dashboard"
    /\ ~shown.loading
    /\ shown.user # Null
    /\ logouts < MaxLogouts
    /\ logouts' = logouts + 1
    /\ Apply(apiLogout(St))
    /\ UNCHANGED <<url, variant, clicks, logins, aside>>

\* POST /api/v1/auth/logout settles
LogoutSettled(i, ok) ==
    /\ i \in Outstanding("logout")
    /\ Apply(logoutThen(Settle(St, i, IF ok THEN "ok" ELSE "fail"), ok))
    /\ UNCHANGED <<url, logouts, variant, clicks, logins, aside>>

\* The Try Again control of the callback view, rendered while error is set
TryAgain ==
    /\ route = "callback"
    /\ Truthy(shown.cbError)
    /\ Apply(push(St, "login"))
    /\ UNCHANGED <<url, logouts, variant, clicks, logins, aside>>

\* The Get Started link of the home view, rendered once loading is over
GetStarted ==
    /\ route = "home"
    /\ ~shown.loading
    /\ Apply(push(St, "login"))
    /\ UNCHANGED <<url, logouts, variant, clicks, logins, aside>>

\* what no handler writes
Fixed == <<url, logouts, logins, variant, aside>>

Click == clicks > 0 /\ clicks' = clicks - 1

Range(seq) == {seq[k] : k \in DOMAIN seq}

\* The button of the login view, disabled while loading
LoginClick ==
    /\ Click
    /\ route = "login"
    /\ ~shown.loginLoading
    /\ Apply([flushSync(handleGitHubLogin(St))
                EXCEPT !.shown.loginLoading = TRUE])
    /\ UNCHANGED Fixed

\* GET /api/v1/auth/github/login resolves
OAuthOk(i, auth_url) ==
    /\ i \in Outstanding("oauth")
    /\ Apply(handleGitHubLoginThen(Settle(St, i, "ok"), i, auth_url))
    /\ UNCHANGED <<Fixed, clicks>>

\* GET /api/v1/auth/github/login rejects
OAuthFail(i) ==
    /\ i \in Outstanding("oauth")
    /\ Apply(handleGitHubLoginCatch(Settle(St, i, "fail"), i))
    /\ UNCHANGED <<Fixed, clicks>>

\* versions 1 and 2 of the dashboard render their controls once the session
\* is known and a user is held
DashShown ==
    /\ route = "dashboard"
    /\ variant # SessionOnly
    /\ ~shown.loading
    /\ shown.user # Null

\* The Sync buttons: the one of the header is disabled while syncing; the one
\* of the empty list (version 2) is not
SyncClick ==
    /\ Click
    /\ DashShown
    /\ \/ ~shown.dash.syncing
       \/ /\ variant = WithResults
          /\ ~shown.dash.loading
          /\ shown.dash.repositories = <<>>
    /\ Apply([flushSync(handleSyncRepositories(St))
                EXCEPT !.shown.dash.syncing = TRUE])
    /\ UNCHANGED Fixed

\* The Analyze button of a listed repository, disabled while the repository
\* is in analyzingRepos
AnalyzeClick(repoId) ==
    /\ Click
    /\ DashShown
    /\ ~shown.dash.loading
    /\ repoId \in Range(shown.dash.repositories)
    /\ repoId \notin shown.dash.analyzingRepos
    /\ Apply([flushSync(handleAnalyzeRepository(St, repoId))
                EXCEPT !.shown.dash.analyzingRepos = @ \cup {repoId}])
    /\ UNCHANGED Fixed

\* The Logout button of versions 1 and 2: router.push('/login')
DashLogoutClick ==
    /\ Click
    /\ DashShown
    /\ Apply(push(St, "login"))
    /\ UNCHANGED Fixed

\* GET /api/v1/repositories/list resolves
ListOk(i, repos) ==
    /\ i \in Outstanding("list")
    /\ Apply(loadRepositoriesThen(Settle(St, i, "ok"), i, repos))
    /\ UNCHANGED <<Fixed, clicks>>

\* GET /api/v1/repositories/list rejects
ListFail(i) ==
    /\ i \in Outstanding("list")
    /\ Apply(loadRepositoriesCatch(Settle(St, i, "fail"), i))
    /\ UNCHANGED <<Fixed, clicks>>

\* GET /api/v1/repositories/stats/summary resolves
StatsOk(i) ==
    /\ i \in Outstanding("stats")
    /\ Apply(loadStatsThen(Settle(St, i, "ok"), i))
    /\ UNCHANGED <<Fixed, clicks>>

\* GET /api/v1/repositories/stats/summary rejects
StatsFail(i) ==
    /\ i \in Outstanding("stats")
    /\ Apply(loadStatsCatch(Settle(St, i, "fail"), i))
    /\ UNCHANGED <<Fixed, clicks>>

\* POST /api/v1/repositories/sync resolves
SyncOk(i, repos) ==
    /\ i \in Outstanding("sync")
    /\ Apply(handleSyncThen(Settle(St, i, "ok"), i, repos))
    /\ UNCHANGED <<Fixed, clicks>>

\* POST /api/v1/repositories/sync rejects
SyncFail(i, detail) ==
    /\ i \in Outstanding("sync")
    /\ Apply(handleSyncCatch(Settle(St, i, "fail"), i, detail))
    /\ UNCHANGED <<Fixed, clicks>>

\* POST /api/v1/analysis/analyze/{id} resolves; the log of replies keeps the
\* status that came back
AnalyzeOk(i, analysis_id, status) ==
    /\ i \in Outstanding("analyze")
    /\ Apply(handleAnalyzeThen(Settle(St, i, status), i,
                               [analysis_id |-> analysis_id, status |-> status]))
    /\ UNCHANGED <<Fixed, clicks>>

\* POST /api/v1/analysis/analyze/{id} rejects
AnalyzeFail(i, detail) ==
    /\ i \in Outstanding("analyze")
    /\ Apply(handleAnalyzeCatch(Settle(St, i, "fail"), i, detail))
    /\ UNCHANGED <<Fixed, clicks>>

\* GET /api/v1/analysis/{id} resolves with an analysis of the given issues
AnalysisOk(i, list) ==
    /\ i \in Outstanding("analysis")
    /\ Apply(loadAnalysisThen(Settle(St, i, "ok"), i, [issues |-> list]))
    /\ UNCHANGED <<Fixed, clicks>>

\* GET /api/v1/analysis/{id} rejects
AnalysisFail(i, detail) ==
    /\ i \in Outstanding("analysis")
    /\ Apply(loadAnalysisCatch(Settle(St, i, "fail"), i, detail))
    /\ UNCHANGED <<Fixed, clicks>>

\* the results view renders past its spinner once neither the session nor the
\* analysis is loading
ResultsShown ==
    route = "results" /\ ~shown.loading /\ ~shown.results.loading

\* The Back to Dashboard buttons, of the error screen and of the header
BackToDashboard ==
    /\ Click
    /\ ResultsShown
    /\ Truthy(shown.results.error) \/ shown.results.analysis # NoAnalysis
    /\ Apply(push(St, "dashboard"))
    /\ UNCHANGED Fixed

Severities == {"all", "critical", "high", "medium", "low"}

\* The severity buttons of the issue list
SelectSeverity(severity) ==
    /\ Click
    /\ ResultsShown
    /\ ~Truthy(shown.results.error)
    /\ shown.results.analysis # NoAnalysis
    /\ severity # shown.results.selectedSeverity
    /\ Apply([flushSync([St EXCEPT !.results.selectedSeverity = severity])
                EXCEPT !.shown.results.selectedSeverity = severity])
    /\ UNCHANGED Fixed

\* React renders the state updates that are waiting and commits; the
\* effects of the commit before have run by then
Render ==
    /\ Dirty(St)
    /\ effects = NoEffects
    /\ Apply(render(St))
    /\ UNCHANGED <<Fixed, clicks>>

\* The router replaces the view. A navigation is a transition: the renders
\* of state updates, and the effects of the last commit, come before it.
Navigate ==
    /\ nav # NoNav
    /\ ~Dirty(St)
    /\ effects = NoEffects
    /\ Apply(navigate(St))
    /\ UNCHANGED <<Fixed, clicks>>

Next ==
    \/ Mount
    \/ Effects
    \/ Render
    \/ Navigate
    \/ \E i \in DOMAIN sent : MeOk(i)
    \/ \E i \in DOMAIN sent : MeFail(i)
    \/ \E i \in DOMAIN sent, t \in Tokens : ExchangeOk(i, t)
    \/ \E i \in DOMAIN sent, d \in Details : ExchangeFail(i, d)
    \/ Logout
    \/ \E i \in DOMAIN sent, ok \in BOOLEAN : LogoutSettled(i, ok)
    \/ TryAgain
    \/ GetStarted

Spec == Init /\ [][Next]_vars

\* every request that was issued gets its response, and the first commit
\* happens
FairSpec ==
    /\ Spec
    /\ WF_vars(Mount)
    /\ WF_vars(\E i \in DOMAIN sent : MeOk(i) \/ MeFail(i))

\* The whole client: every page can be loaded, with or without a stored
\* token, under each version of the dashboard; the callback page with a
\* code, with an error next to the code, and with neither.
PageUrl(path, code, state, id) ==
    [path |-> path, code |-> code, state |-> state, error |-> Null, id |-> id]

AppUrls ==
    {PageUrl(p, Null, Null, Null) : p \in {"home", "login", "dashboard"}}
    \cup {PageUrl("results", Null, Null, id) : id \in IdVals}
    \cup {PageUrl("callback", "abc123", "xyz", Null),
          PageUrl("callback", Null, Null, Null),
          [PageUrl("callback", "abc123", "xyz", Null)
             EXCEPT !.error = "access_denied"]}

AppLoads ==
    {Null, "t1"} \X {AlertsOnly, WithResults, SessionOnly} \X AppUrls

AppInit ==
    /\ \E load \in AppLoads :
         token = load[1] /\ variant = load[2] /\ url = load[3]
    /\ clicks = (IF url.path = "callback" THEN MaxCallbackClicks ELSE MaxClicks)
    /\ logins = MaxAppLogins
    /\ Loaded
    /\ Idle

AppNext ==
    \/ Next
    \/ LoginClick
    \/ \E i \in DOMAIN sent, u \in AuthUrls : OAuthOk(i, u)
    \/ \E i \in DOMAIN sent : OAuthFail(i)
    \/ SyncClick
    \/ \E r \in RepoIds : AnalyzeClick(r)
    \/ DashLogoutClick
    \/ \E i \in DOMAIN sent, l \in RepoLists : ListOk(i, l)
    \/ \E i \in DOMAIN sent : ListFail(i)
    \/ \E i \in DOMAIN sent : StatsOk(i)
    \/ \E i \in DOMAIN sent : StatsFail(i)
    \/ \E i \in DOMAIN sent, l \in RepoLists : SyncOk(i, l)
    \/ \E i \in DOMAIN sent, d \in ErrorDetails : SyncFail(i, d)
    \/ \E i \in DOMAIN sent, a \in AnalysisIds, st \in Statuses :
         AnalyzeOk(i, a, st)
    \/ \E i \in DOMAIN sent, d \in ErrorDetails : AnalyzeFail(i, d)
    \/ \E i \in DOMAIN sent : AnalysisOk(i, <<>>)
    \/ \E i \in DOMAIN sent, d \in ErrorDetails : AnalysisFail(i, d)
    \/ BackToDashboard
    \/ \E sev \in Severities : SelectSeverity(sev)

AppSpec == AppInit /\ [][AppNext]_vars

\* The analysis workflow alone: a returning user opens the dashboard of
\* version 2 and does nothing but start analyses and come back from their
\* results, and the backend answers every read.
AnalyzeInit ==
    /\ token = "t1"
    /\ url = PageUrl("dashboard", Null, Null, Null)
    /\ variant = WithResults
    /\ clicks = MaxAnalyses
    /\ logins = 0
    /\ Loaded
    /\ Idle

AnalyzeNext ==
    \/ Mount
    \/ Effects
    \/ Render
    \/ Navigate
    \/ \E i \in DOMAIN sent : MeOk(i)
    \/ \E r \in RepoIds : AnalyzeClick(r)
    \/ \E i \in DOMAIN sent, l \in RepoLists : ListOk(i, l)
    \/ \E i \in DOMAIN sent : StatsOk(i)
    \/ \E i \in DOMAIN sent, a \in AnalysisIds, st \in {"pending", "completed"} :
         AnalyzeOk(i, a, st)
    \/ \E i \in DOMAIN sent, d \in {"rate limited"} : AnalyzeFail(i, d)
    \/ \E i \in DOMAIN sent : AnalysisOk(i, <<>>)
    \/ BackToDashboard

AnalyzeSpec == AnalyzeInit /\ [][AnalyzeNext]_vars

----------------------------------------------------------------------------
(* The Credential Store on its own *)

\* Bound on the number of calls made to the store
MaxStoreOps == 4

\* localStorage holds whatever an earlier page left in it
StoreInit ==
    /\ token \in Tokens \cup {Null}
    /\ url = PageUrl("login", Null, Null, Null)
    /\ variant = SessionOnly
    /\ clicks = 0
    /\ logins = 0
    /\ Loaded
    /\ Idle

StoreFixed == <<url, logouts, logins, variant, clicks>>

\* setAuthToken(t)
SetAuthToken(t) ==
    /\ Len(storeOps) < MaxStoreOps
    /\ Apply(setAuthToken(St, t))
    /\ storeOps' = Append(storeOps, t)
    /\ UNCHANGED StoreFixed

\* removeAuthToken()
RemoveAuthToken ==
    /\ Len(storeOps) < MaxStoreOps
    /\ Apply(removeAuthToken(St))
    /\ storeOps' = Append(storeOps, "clear")
    /\ UNCHANGED StoreFixed

StoreNext ==
    \/ \E t \in Tokens : SetAuthToken(t)
    \/ RemoveAuthToken

StoreSpec == StoreInit /\ [][StoreNext]_vars

----------------------------------------------------------------------------
(* The issue filter of the results view on its own *)

\* Bound on the number of issues of an analysis
MaxIssues == 3

\* issue.severity as the backend may spell it
SeverityVals == {"critical", "HIGH", "High", "medium", "LOW", "info"}

toLowerCase_Identity(str) == str

\* String.prototype.toLowerCase on the strings that occur
toLowerCase(str) ==
    CASE str \in {"CRITICAL", "Critical"} -> "critical"
      [] str \in {"HIGH", "High"} -> "high"
      [] str \in {"MEDIUM", "Medium"} -> "medium"
      [] str \in {"LOW", "Low"} -> "low"
      [] str \in {"INFO", "Info"} -> "info"
      [] str \in {"ALL", "All"} -> "all"
      [] OTHER -> str

\* String.prototype.toUpperCase on the strings that occur
toUpperCase(str) ==
    CASE str \in {"critical", "Critical"} -> "CRITICAL"
      [] str \in {"high", "High"} -> "HIGH"
      [] str \in {"medium", "Medium"} -> "MEDIUM"
      [] str \in {"low", "Low"} -> "LOW"
      [] str \in {"info", "Info"} -> "INFO"
      [] str \in {"all", "All"} -> "ALL"
      [] OTHER -> str

matches_KnownOnly(issue, severity) ==
    \/ severity = "all" /\ toLowerCase(issue.severity) \in Severities
    \/ toLowerCase(issue.severity) = severity

matches_CaseSensitive(issue, severity) ==
    severity = "all" \/ issue.severity = severity

\* the predicate given to filter:
\* selectedSeverity === 'all' || issue.severity.toLowerCase() === selectedSeverity
matches(issue, severity) ==
    severity = "all" \/ toLowerCase(issue.severity) = severity

\* analysis.issues.filter(...): a new array, the input is left as it is
filterBy(list, severity) ==
    SelectSeq(list, LAMBDA issue : matches(issue, severity))

\* the issue lists of up to MaxIssues issues, each with an id of its own
IssueLists ==
    UNION {{[k \in 1..n |-> [id |-> k, severity |-> f[k]]] :
              f \in [1..n -> SeverityVals]} : n \in 0..MaxIssues}

\* analysis.issues as the render on the screen was given it
issues == shown.results.issues

\* `filteredIssues` as the render on the screen computed it:
\* analysis?.issues.filter(...) || []
filteredIssues ==
    IF shown.results.analysis = NoAnalysis THEN <<>>
    ELSE filterBy(issues, shown.results.selectedSeverity)

\* The results view of an analysis, loaded by a returning user; the backend
\* answers the reads, and the analysis it returns has any of the issue lists
FilterInit ==
    /\ token = "t1"
    /\ url = PageUrl("results", Null, Null, "7")
    /\ variant = WithResults
    /\ clicks = MaxClicks
    /\ logins = 0
    /\ Loaded
    /\ Idle

FilterNext ==
    \/ Mount
    \/ Effects
    \/ Render
    \/ \E i \in DOMAIN sent : MeOk(i)
    \/ \E i \in DOMAIN sent, list \in IssueLists : AnalysisOk(i, list)
    \/ \E severity \in Severities : SelectSeverity(severity)

FilterSpec == FilterInit /\ [][FilterNext]_vars

----------------------------------------------------------------------------
(* The whole client under fairness *)

\* a step in which the response to some request is handled
Returns ==
    AppNext /\ \E i \in DOMAIN reply : reply[i] = "none" /\ reply'[i] # "none"

\* the first commit happens, a response that is due is handled, a render
\* that is due is made and a navigation that was asked for is carried out;
\* the user owes no click
FairAppSpec ==
    /\ AppSpec
    /\ WF_vars(Mount)
    /\ WF_vars(Effects)
    /\ WF_vars(Returns)
    /\ WF_vars(Render)
    /\ WF_vars(Navigate)

----------------------------------------------------------------------------
(* Properties *)

Requests(op) == {i \in DOMAIN sent : sent[i].op = op}

Replied(op, r) == {i \in DOMAIN sent : sent[i].op = op /\ reply[i] = r}

MeFailStep == \E i \in DOMAIN sent : MeFail(i)

\* the requests sent in the step
NewRequests == DOMAIN sent' \ DOMAIN sent

\* the step runs the passive effects that the last commit left to run
EffectsRun == effects # NoEffects /\ effects' = NoEffects

\* C1: whenever the Session Manager holds a user, the Credential Store holds
\* a credential.
C1_UserImpliesCredential == user # Null => token # Null

\* C2: when the identity fetch of startup fails, the session is
\* Unauthenticated (loading false, user null) and the store is empty, and
\* the failure itself puts no error on the screen.
C2_FetchFailureDemotes ==
    [][MeFailStep =>
         /\ ~loading'
         /\ user' = Null
         /\ token' = Null
         /\ (cbError' # cbError => url.path = "callback")]_vars

\* C3: with no credential stored at startup, initAuth ends at once with
\* loading false and user null, and GET /api/v1/auth/me is never issued.
C3_NoCredentialNoFetch ==
    /\ []((initPc # "boot" /\ ~Truthy(initToken)) =>
            (initPc = "done" /\ ~loading /\ Requests("me") = {}))
    /\ [][(Mount /\ ~Truthy(token)) => (user' = Null /\ ~loading')]_vars

C3_Witness ==
    /\ initPc = "done"
    /\ initToken = Null
    /\ url.path = "callback"
    /\ Requests("exchange") # {}
    /\ user = Null

\* C4: a logout whose backend call has returned, successfully or not, leaves
\* user null and the store empty; the outcome of the backend call makes no
\* difference to the state reached.
C4_LogoutAlwaysClears ==
    [][\A i \in DOMAIN sent, ok \in BOOLEAN :
         LogoutSettled(i, ok) => (user' = Null /\ token' = Null /\ ~loading')]_vars

C4_Witness ==
    /\ Replied("logout", "fail") # {}
    /\ Replied("logout", "ok") = {}
    /\ user = Null
    /\ token = Null
    /\ route = "login"

\* C5: the session starts in Unknown (loading true, user null) and, when
\* every request is answered, leaves it for good: loading becomes false and
\* never becomes true again.
C5_LeavesUnknownForGood ==
    /\ (loading = TRUE /\ user = Null)
    /\ [][loading = FALSE => loading' = FALSE]_vars
    /\ <>[](~loading)

C5_Witness ==
    /\ initPc = "done"
    /\ ~loading
    /\ Truthy(initToken)
    /\ Replied("me", "fail") # {}

\* C6: one redirect to the callback view with code=c and state=s makes
\* exactly one call of githubCallback, with c and s.
C6_ExchangeExactlyOnce ==
    (/\ initPc # "boot"
     /\ url.path = "callback"
     /\ Truthy(url.code) /\ Truthy(url.state) /\ url.error = Null)
    => /\ Cardinality(Requests("exchange")) = 1
       /\ \A i \in Requests("exchange") :
            sent[i].a1 = url.code /\ sent[i].a2 = url.state

\* C7: a callback URL that carries an error parameter ends in
\* authorization-denied and never calls githubCallback, whether or not it
\* carries a code.
C7_ErrorParamDenies ==
    (initPc # "boot" /\ url.path = "callback" /\ url.error # Null)
    => /\ Requests("exchange") = {}
       /\ route = "callback" => cbError = "GitHub authentication was denied"

\* C8: a callback URL that carries neither error nor code ends in
\* missing-code, never calls githubCallback, and leaves the credential and
\* the session to what startup alone makes of them.
C8_MissingCode ==
    (initPc # "boot" /\ url.path = "callback"
     /\ url.error = Null /\ url.code = Null)
    => /\ Requests("exchange") = {}
       /\ route = "callback" => cbError = "No authorization code received"
       /\ token \in {initToken, Null}
       /\ user \in {Null, UserOf(initToken)}
       /\ user # Null => Replied("me", "ok") # {}

C8_Witness ==
    /\ url.path = "callback"
    /\ url.error = Null /\ url.code = Null /\ url.state = "xyz"
    /\ route = "callback"
    /\ cbError = "No authorization code received"
    /\ initPc = "done"

\* C9: when the exchange succeeds with {access_token, user}, login has stored
\* exactly that token and set exactly that user by the time the navigation
\* to the dashboard is asked for; the callback view asks for the dashboard
\* only in a step that ends with the credential stored, and is replaced by
\* the dashboard only after an exchange has succeeded.
C9_LoginThenDashboard ==
    /\ [][\A i \in DOMAIN sent, t \in Tokens :
            ExchangeOk(i, t) =>
              (token' = t /\ user' = UserOf(t) /\ nav'.route = "dashboard")]_vars
    /\ [][(route = "callback" /\ nav' # nav /\ nav'.route = "dashboard") =>
            (token' \in Tokens /\ user' = UserOf(token'))]_vars
    /\ [][(route = "callback" /\ route' = "dashboard") =>
            Replied("exchange", "ok") # {}]_vars

C9_Witness ==
    /\ url.path = "callback"
    /\ route = "dashboard"
    /\ Replied("exchange", "ok") # {}
    /\ token = "t2"
    /\ user = "u2"

\* C10: when the exchange fails, the callback view shows the detail of the
\* backend when it has one and 'Authentication failed' otherwise; login is
\* not called, nothing is navigated, credential and session stay as they
\* were.
C10_ExchangeFailure ==
    [][\A i \in DOMAIN sent, d \in Details :
         ExchangeFail(i, d) =>
           /\ UNCHANGED <<token, user, loading, route, nav, sent>>
           /\ route = "callback" =>
                cbError' = (IF d \in {Null, ""} THEN "Authentication failed"
                            ELSE d)]_vars

C10_Witness ==
    /\ route = "callback"
    /\ cbError = "bad_verification_code"
    /\ Replied("exchange", "fail") # {}
    /\ Replied("exchange", "ok") = {}

----------------------------------------------------------------------------
(* Properties of the handshake start and of the workflow *)

OAuthOkStep == \E i \in DOMAIN sent, u \in AuthUrls : OAuthOk(i, u)

\* C11: the browser goes to the authorization URL exactly when githubLogin
\* resolves, and to the URL it resolved with; when githubLogin rejects,
\* nothing is navigated, the loading flag of the login view that asked is
\* false again, and the credential and the session are as they were.
C11_InitiateOAuth ==
    [][/\ \A i \in DOMAIN sent :
            /\ \A u \in AuthUrls : OAuthOk(i, u) => href' = u
            /\ OAuthFail(i) =>
                 /\ href' = href
                 /\ route' = route
                 /\ nav' = nav
                 /\ Mounted(St, i) => ~loginLoading'
                 /\ token' = token
                 /\ user' = user
       /\ href' # href => OAuthOkStep]_vars

C11_Witness ==
    /\ Replied("oauth", "fail") # {}
    /\ Replied("oauth", "ok") # {}
    /\ route = "login"
    /\ href \in AuthUrls

\* C12: whatever status startAnalysis resolves with, the analyze handler
\* (that of version 2, the one that navigates at all) asks the router for
\* the results view of the analysis_id that came back.
C12_EveryStatusNavigates ==
    [][\A i \in DOMAIN sent, a \in AnalysisIds, st \in Statuses :
         (variant = WithResults /\ AnalyzeOk(i, a, st)) =>
           nav' = [route |-> "results", id |-> idString(a)]]_vars

\* C13: in version 2, when startAnalysis resolves with status pending the
\* same step asks the router for the results view of the analysis_id; the
\* click had sent the one startAnalysis request, and the step sends no
\* other; the router mounts the results view of that id without a request,
\* and the effects of that mount send the getAnalysis of the id, the next
\* request made for the job.
C13_PendingNavigatesAtOnce ==
    /\ [][\A r \in RepoIds :
            AnalyzeClick(r) =>
              /\ Cardinality({j \in NewRequests : sent'[j].op = "analyze"}) = 1
              /\ \A j \in NewRequests :
                   sent'[j].op = "analyze" => sent'[j].a1 = r]_vars
    /\ [][\A i \in DOMAIN sent, a \in AnalysisIds :
            (variant = WithResults /\ AnalyzeOk(i, a, "pending")) =>
              /\ nav' = [route |-> "results", id |-> idString(a)]
              /\ sent' = sent]_vars
    /\ [][(Navigate /\ nav.route = "results") =>
            /\ route' = "results"
            /\ results'.analysisId = nav.id
            /\ (route # "results" \/ results.analysisId # nav.id) =>
                 effects'.load
            /\ sent' = sent]_vars
    /\ [][(/\ EffectsRun
           /\ effects.load
           /\ route = "results"
           /\ shown.user # Null
           /\ Truthy(results.analysisId))
          => /\ Len(sent') = Len(sent) + 1
             /\ sent'[Len(sent')].op = "analysis"
             /\ sent'[Len(sent')].a1 = parseInt(results.analysisId)]_vars

C13_Witness ==
    /\ variant = WithResults
    /\ route = "results"
    /\ results.analysisId = "7"
    /\ \E i \in DOMAIN sent :
         /\ Requests("analyze") = {i}
         /\ reply[i] = "pending"
         /\ Requests("analysis") = {Len(sent)}
         /\ sent[Len(sent)].a1 = 7
         /\ reply[Len(sent)] = "none"

\* C14: when syncRepositories rejects, the repository list and the stats are
\* what they were, the alert shows the detail of the backend when it has one
\* and 'Failed to sync repositories' otherwise, and the dashboard that asked
\* is no longer syncing.
C14_SyncFailure ==
    [][\A i \in DOMAIN sent, d \in ErrorDetails :
         SyncFail(i, d) =>
           /\ dash'.repositories = dash.repositories
           /\ dash'.stats = dash.stats
           /\ lastAlert' =
                [kind |-> "sync_error",
                 text |-> IF d \in {Null, ""}
                          THEN "Failed to sync repositories" ELSE d]
           /\ Mounted(St, i) => ~dash'.syncing]_vars

C14_Witness ==
    /\ route = "dashboard"
    /\ dash.repositories = <<1, 2>>
    /\ dash.stats # NoStats
    /\ ~dash.syncing
    /\ lastAlert = [kind |-> "sync_error", text |-> "rate limited"]
    /\ Replied("sync", "fail") # {}

\* C15: when syncRepositories resolves, the list becomes the repositories of
\* the response; and when the sync reports its success, the stats held are
\* those of the fetch made after that sync.
C15_SyncRefreshes ==
    /\ [][\A i \in DOMAIN sent, l \in RepoLists :
            (SyncOk(i, l) /\ Mounted(St, i)) => dash'.repositories = l]_vars
    /\ [][\A i \in DOMAIN sent :
            (/\ sent[i].op = "stats"
             /\ sent[i].a1 # 0
             /\ Mounted(St, i)
             /\ StatsOk(i) \/ StatsFail(i)
             /\ lastAlert'.kind = "sync_ok")
            => dash'.stats = i]_vars

\* request i of a view is answered with a failure
ViewFailStep(i) ==
    \/ OAuthFail(i)
    \/ ListFail(i)
    \/ StatsFail(i)
    \/ \E d \in Details : ExchangeFail(i, d)
    \/ \E d \in ErrorDetails : SyncFail(i, d) \/ AnalyzeFail(i, d)
                                \/ AnalysisFail(i, d)

\* request i of a view is answered
ViewReplyStep(i) ==
    \/ ViewFailStep(i)
    \/ StatsOk(i)
    \/ \E list \in IssueLists : AnalysisOk(i, list)
    \/ \E u \in AuthUrls : OAuthOk(i, u)
    \/ \E t \in Tokens : ExchangeOk(i, t)
    \/ \E l \in RepoLists : ListOk(i, l) \/ SyncOk(i, l)
    \/ \E a \in AnalysisIds, st \in Statuses : AnalyzeOk(i, a, st)

\* an error message is on the screen
ErrorShown ==
    \/ route = "callback" /\ Truthy(cbError)
    \/ route = "results" /\ Truthy(results.error)
    \/ lastAlert.kind \in {"sync_error", "analysis_error", "analysis_failed"}

\* C16: when a request of the Handshake Controller or of the Workflow
\* Orchestrator fails while its view is mounted, an error message is on the
\* screen afterwards, and the credential, the session and the repository
\* list are what they were.
C16_FailuresAreShown ==
    [][\A i \in DOMAIN sent :
         (Mounted(St, i) /\ ViewFailStep(i)) =>
           /\ ErrorShown'
           /\ token' = token
           /\ user' = user
           /\ dash'.repositories = dash.repositories]_vars

\* C17: a response to a request whose view has been left writes no state of
\* the app and navigates nowhere.
C17_LateResponseDiscarded ==
    [][\A i \in DOMAIN sent :
         (~Mounted(St, i) /\ ViewReplyStep(i)) =>
           UNCHANGED <<route, nav, href, token, user, loading, cbError,
                       loginLoading, dash, results, sent>>]_vars

\* C18: analyzingRepos, the only thing that disables an Analyze button, holds
\* exactly the repositories that the mounted dashboard has asked to analyze
\* and has no answer for yet; a request made by a dashboard that was left is
\* not in it, so the same repository can be started again while that request
\* is in flight.
C18_NoDeduplication ==
    dash.analyzingRepos =
        {sent[i].a1 : i \in {j \in Requests("analyze") :
                               reply[j] = "none" /\ sent[j].gen = gen}}

C18_Witness ==
    /\ route = "dashboard"
    /\ \E i, j \in Requests("analyze") :
         /\ i # j
         /\ sent[i].a1 = sent[j].a1
         /\ reply[i] = "none"
         /\ reply[j] = "none"

\* a transition of the Session Manager: startup, login, logout
SessionStep ==
    \/ Mount
    \/ \E i \in DOMAIN sent :
         \/ MeOk(i)
         \/ MeFail(i)
         \/ \E t \in Tokens : ExchangeOk(i, t)
         \/ \E ok \in BOOLEAN : LogoutSettled(i, ok)

\* C19: the stored credential and the session user change only in a
\* transition of the Session Manager; every other step leaves both as they
\* are.
C19_SingleWriter ==
    [][(token' # token \/ user' # user) => SessionStep]_vars

C19_Witness ==
    /\ token = "t1"
    /\ user = "u1"
    /\ route = "results"
    /\ results.selectedSeverity = "high"
    /\ Replied("analysis", "ok") # {}
    /\ Requests("analyze") # {}
    /\ Replied("list", "ok") # {}

\* C20: a request that is sent carries the credential that the store holds
\* when it is sent, and none when the store is empty.
C20_BearerIsStoredCredential ==
    [][\A j \in DOMAIN sent' \ DOMAIN sent : sent'[j].bearer = token']_vars

C20_Witness ==
    /\ token = "t2"
    /\ \E i, j \in DOMAIN sent :
         /\ sent[i].op = "exchange" /\ sent[i].bearer = Null
         /\ sent[j].op = "logout" /\ sent[j].bearer = "t2"

----------------------------------------------------------------------------
(* Properties of the gateway, of the gating and of the failure paths *)

\* the gateway operations that may go out without a credential
OpenOps == {"oauth", "exchange"}

\* C21: every request other than the start of the handshake and the exchange
\* of the code was sent with a credential attached.
C21_CredentialAttached ==
    \A i \in DOMAIN sent : sent[i].op \notin OpenOps => sent[i].bearer # Null

\* the operations of the gateway that take no argument
PlainOps == {"oauth", "me", "logout", "sync", "list"}

\* C22: a gateway operation neither writes nor reads the Credential Store or
\* the session: called in the current state it leaves the token, the user and
\* the loading flag alone, and the request it sends is the same whatever the
\* store holds.
C22_PureTransport ==
    \A op \in PlainOps :
        /\ request(St, op, Null, Null).token = token
        /\ request(St, op, Null, Null).user = user
        /\ request(St, op, Null, Null).loading = loading
        /\ \A t \in Tokens \cup {Null} :
             request([St EXCEPT !.token = t], op, Null, Null).sent
               = request(St, op, Null, Null).sent

\* a control whose handler calls one gateway operation is activated
CallStep ==
    \/ LoginClick
    \/ SyncClick
    \/ Logout
    \/ \E r \in RepoIds : AnalyzeClick(r)

\* the operations that those handlers call; no effect calls them
CallOps == {"oauth", "sync", "logout", "analyze"}

\* C23: a call of a gateway operation by a handler sends one request of
\* that operation (the effects that the click flushes send their own); when
\* a request fails, the step that delivers the failure sends no request of that
\* operation again, and the caller gets the detail the backend gave.
C23_OneRequestNoRetry ==
    /\ [][CallStep =>
            Cardinality({j \in NewRequests : sent'[j].op \in CallOps}) = 1]_vars
    /\ [][\A i \in DOMAIN sent :
            (reply[i] = "none" /\ reply'[i] = "fail") =>
              \A j \in DOMAIN sent' \ DOMAIN sent :
                sent'[j].op # sent[i].op]_vars
    /\ [][\A i \in DOMAIN sent, d \in ErrorDetails :
            (AnalysisFail(i, d) /\ Mounted(St, i) /\ Truthy(d)) =>
              results'.error = d]_vars

C23_Witness ==
    /\ route = "results"
    /\ results.error = "rate limited"
    /\ \E i \in DOMAIN sent :
         /\ Requests("analysis") = {i}
         /\ reply[i] = "fail"

\* the requests of the Workflow Orchestrator
WorkflowOps == {"list", "stats", "sync", "analyze", "analysis"}

\* C24: a request of the Workflow Orchestrator is sent only while the session
\* holds a user; and the render that shows a newly set user on a dashboard
\* that lists repositories, like the mount of such a dashboard for a user,
\* sends both listRepositories and fetchRepositoryStats.
C24_GatedBySession ==
    /\ [][\A j \in NewRequests :
            sent'[j].op \in WorkflowOps => user' # Null]_vars
    /\ [][(/\ variant # SessionOnly
           /\ route = "dashboard"
           /\ shown.user # Null
           /\ effects.load
           /\ EffectsRun)
          => /\ \E j \in NewRequests : sent'[j].op = "list"
             /\ \E j \in NewRequests : sent'[j].op = "stats"]_vars

C24_Witness ==
    /\ variant = WithResults
    /\ url.path = "dashboard"
    /\ route = "dashboard"
    /\ user = "u1"
    /\ Replied("me", "ok") # {}
    /\ Requests("list") # {}
    /\ Requests("stats") # {}
    /\ \A i \in DOMAIN sent : sent[i].op \in WorkflowOps => sent[i].gen = 0

\* C25: after any sequence of setAuthToken and removeAuthToken, getAuthToken
\* returns the token of the last call if that was a setAuthToken and null if
\* it was a removeAuthToken; a second token replaces the first; and
\* removeAuthToken twice leaves what removeAuthToken once leaves.
C25_StoreReflectsLastWrite ==
    /\ storeOps # <<>> =>
         getAuthToken(St) = (IF storeOps[Len(storeOps)] = "clear" THEN Null
                             ELSE storeOps[Len(storeOps)])
    /\ getAuthToken(removeAuthToken(St)) = Null
    /\ removeAuthToken(removeAuthToken(St)) = removeAuthToken(St)
    /\ \A t1, t2 \in Tokens :
         getAuthToken(setAuthToken(setAuthToken(St, t1), t2)) = t2

C25_Witness ==
    /\ storeOps = <<"t1", "clear", "clear", "t2">>
    /\ token = "t2"

----------------------------------------------------------------------------
(* Properties of the issue filter *)

\* equality of two strings whatever their case
EqualsIgnoreCase(a, b) == toUpperCase(a) = toUpperCase(b)

\* the severities the filter knows by name
KnownSeverities == Severities \ {"all"}

\* C26: with severity 'all' the filtered list is the issue list itself, same
\* order and same length, also when the list is empty.
C26_AllKeepsEverything ==
    shown.results.selectedSeverity = "all" => filteredIssues = issues

C26_Witness ==
    /\ shown.results.selectedSeverity = "all"
    /\ Len(issues) = 3
    /\ issues[1].severity = "info"
    /\ issues[2].severity = "HIGH"
    /\ issues[3].severity = "info"
    /\ filteredIssues = issues

\* C27: with a specific severity the filtered list holds exactly the issues
\* whose severity equals it whatever the case, in the order they have in the
\* issue list, and the issue list is left as it was.
C27_SpecificSeverity ==
    /\ [](shown.results.selectedSeverity # "all" =>
            /\ \A k \in DOMAIN filteredIssues :
                 /\ filteredIssues[k] \in Range(issues)
                 /\ EqualsIgnoreCase(filteredIssues[k].severity,
                                     shown.results.selectedSeverity)
            /\ \A k \in DOMAIN issues :
                 EqualsIgnoreCase(issues[k].severity,
                                  shown.results.selectedSeverity)
                 => issues[k] \in Range(filteredIssues)
            /\ \A a, b \in DOMAIN filteredIssues :
                 a < b => filteredIssues[a].id < filteredIssues[b].id)
    /\ [][\A severity \in Severities :
            SelectSeverity(severity) =>
              (issues' = issues /\ results'.issues = results.issues)]_vars

C27_Witness ==
    /\ shown.results.selectedSeverity = "high"
    /\ Len(issues) = 3
    /\ issues[1].severity = "High"
    /\ issues[2].severity = "LOW"
    /\ issues[3].severity = "HIGH"
    /\ filteredIssues = <<issues[1], issues[3]>>

\* C28: the filtered lists for critical, high, medium and low hold between
\* them exactly the issues whose severity is one of the four whatever the
\* case, and no issue is in two of them; the list on the screen is the one
\* for the selected severity.
C28_SeveritiesPartition ==
    /\ filteredIssues = filterBy(issues, shown.results.selectedSeverity)
    /\ UNION {Range(filterBy(issues, s)) : s \in KnownSeverities}
         = {issues[k] : k \in {j \in DOMAIN issues :
                \E s \in KnownSeverities :
                    EqualsIgnoreCase(issues[j].severity, s)}}
    /\ \A s1, s2 \in KnownSeverities :
         s1 # s2 => Range(filterBy(issues, s1)) \cap Range(filterBy(issues, s2)) = {}

C28_Witness ==
    /\ shown.results.selectedSeverity = "low"
    /\ Len(issues) = 3
    /\ issues[1].severity = "critical"
    /\ issues[2].severity = "info"
    /\ issues[3].severity = "LOW"
    /\ filteredIssues = <<issues[3]>>

\* C29: the login view is asked for, other than by a control the user
\* pressed (Logout of dashboard versions 1 and 2, Try Again, Get Started),
\* only by a protected view and only when loading is false and the session
\* that the view was rendered with holds no user: the protected views do not
\* redirect while the session is still unknown. The home view asks for the
\* dashboard only when loading is false and it was rendered with a user.
PressedToLogin == DashLogoutClick \/ TryAgain \/ GetStarted

C29_RedirectsWhenSessionKnown ==
    [][/\ (nav' # nav /\ nav'.route = "login" /\ ~PressedToLogin)
            => (route' \in {"dashboard", "results"}
                /\ ~loading' /\ ~shown.loading /\ shown.user = Null)
       /\ (route = "home" /\ nav' # nav /\ nav'.route = "dashboard")
            => (~loading' /\ ~shown.loading /\ shown.user # Null)]_vars

\* the home view has redirected a restored session to the dashboard, and the
\* dashboard has redirected to the login view once the session was ended
C29_Witness ==
    /\ url.path = "home"
    /\ route = "login"
    /\ Replied("me", "ok") # {}
    /\ Requests("logout") # {}
    /\ ~loading
    /\ user = Null

\* C30: when startAnalysis rejects, the handler navigates nowhere and issues
\* no request, alerts with the detail of the backend when there is one and
\* with 'Failed to start analysis' otherwise, takes the repository out of
\* analyzingRepos of the dashboard that started the analysis, and leaves the
\* repositories, the stats, the session and the stored credential as they
\* were.
C30_AnalyzeFailure ==
    [][\A i \in DOMAIN sent, detail \in ErrorDetails :
         AnalyzeFail(i, detail) =>
           /\ route' = route /\ nav' = nav /\ gen' = gen /\ href' = href
           /\ results' = results
           /\ sent' = sent
           /\ lastAlert' =
                [kind |-> "analysis_error",
                 text |-> IF detail \in {Null, ""}
                          THEN "Failed to start analysis" ELSE detail]
           /\ Mounted(St, i) =>
                /\ sent[i].a1 \in dash.analyzingRepos
                /\ dash'.analyzingRepos = dash.analyzingRepos \ {sent[i].a1}
           /\ dash'.repositories = dash.repositories
           /\ dash'.stats = dash.stats
           /\ user' = user /\ loading' = loading
           /\ token' = token]_vars

\* startAnalysis was rejected with a detail on a dashboard that shows its
\* repositories: the detail was alerted and the repository is analysable again
C30_Witness ==
    /\ route = "dashboard"
    /\ lastAlert = [kind |-> "analysis_error", text |-> "rate limited"]
    /\ \E i \in Replied("analyze", "fail") :
         Mounted(St, i) /\ sent[i].a1 \notin dash.analyzingRepos
    /\ dash.repositories # <<>>
    /\ user # Null
    /\ token # Null

----------------------------------------------------------------------------
(* Properties of the session states and of the dashboard's bookkeeping *)

\* C31: the session is never Unknown and Authenticated at once: while
\* loading is true the user is null, also when the login of a handshake
\* completes before the identity fetch of startup has returned.
C31_UnknownHoldsNoUser == loading => user = Null

\* C32: whenever the session holds a user and the store holds a credential,
\* the user is the one the backend names for that credential: an identity
\* fetched with an older credential does not replace the one a later login
\* has set.
C32_UserOfStoredCredential ==
    (user # Null /\ token # Null) => user = UserOf(token)

\* C33: pressing the Logout control of the dashboard, in each version of the
\* dashboard that shows it, calls logout of the Session Manager: the step
\* issues POST /api/v1/auth/logout, after whose return the user is null and
\* the store is empty.
C33_LogoutControlLogsOut ==
    [][(Logout \/ DashLogoutClick) =>
         \E i \in NewRequests : sent'[i].op = "logout"]_vars

\* the startAnalysis requests for repository repoId that have not returned
InFlight(repoId) ==
    {i \in Requests("analyze") : sent[i].a1 = repoId /\ reply[i] = "none"}

\* C34 as stated: on the dashboard a repository is in analyzingRepos exactly
\* when some startAnalysis request for it has not returned, whichever view
\* instance issued it.
C34_AnalyzingIffInFlight ==
    route = "dashboard" =>
        \A repoId \in RepoIds :
            repoId \in dash.analyzingRepos <=> InFlight(repoId) # {}

\* C34, amended: on the dashboard a repository is in analyzingRepos exactly
\* when a startAnalysis request for it that this dashboard instance issued
\* has not returned; once all of these have returned the set is empty.
C34_AnalyzingIffInFlightHere ==
    route = "dashboard" =>
        \A repoId \in RepoIds :
            repoId \in dash.analyzingRepos
                <=> \E i \in InFlight(repoId) : Mounted(St, i)

\* one analysis of this dashboard is in flight and another one has returned
C34_Witness ==
    /\ route = "dashboard"
    /\ \E i, j \in Requests("analyze") :
         /\ Mounted(St, i) /\ Mounted(St, j)
         /\ reply[i] = "none" /\ reply[j] # "none"
         /\ dash.analyzingRepos = {sent[i].a1}
         /\ sent[j].a1 # sent[i].a1

\* the sync actions of the mounted dashboard that have not finished: the
\* handler of sync request i awaits syncRepositories or the loadStats call
\* that follows it
SyncsInProgress ==
    {i \in Requests("sync") :
        /\ Mounted(St, i)
        /\ \/ reply[i] = "none"
           \/ /\ reply[i] = "ok"
              /\ \E j \in Requests("stats") :
                    sent[j].a1 = i /\ reply[j] = "none"}

\* C35: on the dashboard the syncing flag is true exactly while a sync
\* action is in progress, and no two sync actions are in progress at once,
\* also while the list is empty and the sync control of the empty state is
\* shown.
C35_SyncingIffInProgress ==
    route = "dashboard" =>
        /\ dash.syncing <=> SyncsInProgress # {}
        /\ Cardinality(SyncsInProgress) <= 1

\* C36: the repository list is that of the most recently issued request
\* that succeeded: a listRepositories response that arrives after the
\* response of a sync that was started later does not replace the synced
\* list.
C36_LateListKeepsSyncedList ==
    [][\A i \in DOMAIN sent, repos \in RepoLists :
         (/\ ListOk(i, repos)
          /\ Mounted(St, i)
          /\ \E j \in Replied("sync", "ok") : j > i /\ Mounted(St, j))
            => dash'.repositories = dash.repositories]_vars

AllReturned == \A i \in DOMAIN reply : reply[i] # "none"

\* C37: once the session holds a user and every request has returned, the
\* results view leaves its loading state, whatever the id parameter of the
\* page is, an absent one included.
C37_ResultsLeaveLoading ==
    (route = "results" /\ ~loading /\ user # Null /\ AllReturned)
        ~> (route # "results" \/ ~results.loading)

====
